---- MODULE Spec2Model ----
(***************************************************************************)
(* A model of jsonapi.querysets.Queryset: a lazily evaluated, memoized     *)
(* page of a JSON:API collection, its chaining methods and its cursor      *)
(* pagination.  Parameter mappings are Python dicts, which are shared by   *)
(* reference: they live in a heap (dicts) and a Queryset holds the index   *)
(* of its mapping.                                                         *)
(***************************************************************************)
EXTENDS Integers, Sequences, FiniteSets, TLC

VARIABLES
    qs,         \* the Queryset instances, in order of construction
    dicts,      \* the heap of parameter dicts; qs[i].params indexes it
    born,       \* per instance: what it was when its construction finished
    transport,  \* per instance: requests issued through self.API.request
    last,       \* the last call made by the program and how it ended
    env,        \* the server's collection and the room left for instances
    gen,        \* the all_pages()/all() generator being consumed
    out         \* what the generators have yielded so far

vars == <<qs, dicts, born, transport, last, env, gen, out>>

\* ---------------------------------------------------------------- bounds
MaxInst  == 1     \* Queryset instances the caller keeps in a run of Spec
MaxChain == 2     \* Queryset instances the caller keeps in a run of SpecChain
MaxItems == 2     \* elements of one document's data array
MaxPages == 3     \* pages of the served collection
MaxCalls == 2     \* transport requests of one instance
MaxDocs  == 2     \* Queryset instances the caller keeps in a run of SpecDocs
MaxNew   == 2     \* Queryset instances the caller keeps in a run of SpecNew

\* ------------------------------------------------------ Python's values
\* None and Optional values: None is <<>>, a value x is <<x>>.
None == <<>>
Some(x) == <<x>>
IsNone(o) == o = <<>>
The(o) == o[1]

\* A parameter value: a string, or a list of strings (parse_qs).
Str(s) == [t |-> "str", v |-> <<s>>]
List(ss) == [t |-> "list", v |-> ss]
IntVal(n) == [t |-> "int", v |-> <<ToString(n)>>]

\* dict.update(other): other's keys win.
Update(d, e) ==
    [k \in (DOMAIN d) \cup (DOMAIN e) |-> IF k \in DOMAIN e THEN e[k] ELSE d[k]]

EmptyDict == <<>>
Dict1(k, v) == [x \in {k} |-> v]

\* A URL is its path and the key=value pairs of its query string, in order.
Url(path, query) == [path |-> path, query |-> query]

\* ------------------------------------------------------------- __init__
\* urllib.parse.parse_qs: key -> the list of its values, in order; a pair
\* with a blank value is ignored (keep_blank_values is False).
RECURSIVE ValuesOf(_, _)
ValuesOf(query, key) ==
    IF query = <<>> THEN <<>>
    ELSE (IF Head(query)[1] = key /\ Head(query)[2] # ""
          THEN <<Head(query)[2]>> ELSE <<>>)
         \o ValuesOf(Tail(query), key)

parse_qs(query) ==
    [k \in {query[j][1] : j \in {n \in 1..Len(query) : query[n][2] # ""}} |->
        ValuesOf(query, k)]

\* The mutant of QueryParams: every key keeps the list of its values.
QueryParamsLists(query) ==
    LET parsed == parse_qs(query)
    IN [k \in DOMAIN parsed |-> List(parsed[k])]

\* lines 15-16: a key with one value collapses to that value.
QueryParams(query) ==
    LET parsed == parse_qs(query)
    IN [k \in DOMAIN parsed |->
          IF Len(parsed[k]) = 1 THEN Str(parsed[k][1]) ELSE List(parsed[k])]

\* line 19: params.update(query_params), in place on the dict handed in.
MergeParams(params, query_params) == Update(params, query_params)

\* A fresh, unevaluated instance over the dict pid (lines 21-27).
NewQueryset(path, pid) ==
    [url |-> path, params |-> pid,
     data |-> None, next_url |-> None, previous_url |-> None]

\* urlparse(None) gives an empty path and an empty query.
UrlOrEmpty(o) == IF IsNone(o) THEN Url("", <<>>) ELSE The(o)

\* ------------------------------------------------- the wire documents
\* A relationship entry of a data element, under the one name "owner":
\*   absent  the element has no 'relationships' key
\*   none    "owner": null
\*   nodata  "owner": {...} without a 'data' key
\*   null    "owner": {"data": null}
\*   ptr     "owner": {"data": {"type": t, "id": i}}, key = <<t, i>>
Rel(kind, key) == [kind |-> kind, key |-> key]

\* A data element; ok says whether API.new accepts it.
Item(id, rel, ok) == [id |-> id, rel |-> rel, ok |-> ok]

\* An element of 'included'; keys says whether it has 'type' and 'id'.
Incl(type, id, keys) == [type |-> type, id |-> id, keys |-> keys]

Doc(hasData, data, included, next, previous) ==
    [hasData |-> hasData, data |-> data, included |-> included,
     links |-> [next |-> next, previous |-> previous]]

\* ------------------------------------------------------------ _evaluate
\* The mutant of Cached: the guard tests truthiness, `if self._data:`.
CachedTruthy(q) == ~IsNone(q.data) /\ The(q.data) # <<>>

\* line 52: self._data is not None
Cached(q) == ~IsNone(q.data)

\* lines 59-61: the lookup table's keys; a record without 'type' or 'id'
\* raises KeyError.
IncludedMalformed(doc) ==
    /\ ~IsNone(doc.included)
    /\ \E j \in 1..Len(The(doc.included)) : ~The(doc.included)[j].keys

IncludedKeys(doc) ==
    IF IsNone(doc.included) THEN {}
    ELSE {<<The(doc.included)[j].type, The(doc.included)[j].id>> :
            j \in 1..Len(The(doc.included))}

\* lines 65-76: the entity built from one element.  The raw relationships
\* are kept (item.pop) and the resolved ones are written over them.
NewEntity(item, included) ==
    [id |-> item.id,
     owner |-> [resolved |-> item.rel.kind = "ptr" /\ item.rel.key \in included,
                raw |-> item.rel]]

\* lines 67-70: `relationship is None or 'data' not in relationship` skips
\* the entry; {"data": null} passes the test and the subscript of None at
\* line 69 raises TypeError.
RelationshipRaises(item) == item.rel.kind = "null"

\* lines 64-76: the loop appends to self._data element by element and stops
\* at the first element that raises.
RECURSIVE BuildData(_, _, _)
BuildData(items, included, acc) ==
    IF items = <<>> THEN [data |-> acc, exc |-> "none"]
    ELSE IF RelationshipRaises(Head(items))
         THEN [data |-> acc, exc |-> "TypeError"]
    ELSE IF ~Head(items).ok
         THEN [data |-> acc, exc |-> "ResourceError"]
    ELSE BuildData(Tail(items), included,
                   Append(acc, NewEntity(Head(items), included)))

\* lines 63, 75, 78-79: self._data is assigned before the loop and grows in
\* place; the cursors are assigned only after the loop.
Assemble(q, built, links) ==
    IF built.exc # "none" THEN [q EXCEPT !.data = Some(built.data)]
    ELSE [q EXCEPT !.data = Some(built.data),
                   !.next_url = links.next,
                   !.previous_url = links.previous]

\* lines 58-79: _evaluate once the document is at hand.
EvaluateDoc(q, doc) ==
    IF IncludedMalformed(doc) THEN [q |-> q, exc |-> "KeyError"]
    ELSE IF ~doc.hasData
         THEN [q |-> [q EXCEPT !.data = Some(<<>>)], exc |-> "KeyError"]
    ELSE LET built == BuildData(doc.data, IncludedKeys(doc), <<>>)
         IN [q |-> Assemble(q, built, doc.links), exc |-> built.exc]

\* lines 64-76 as the document sees them: item.pop('relationships', {}) at
\* line 73 takes the entry out of every element the loop gets that far
\* with; the element whose relationship raises at line 69 keeps it, and the
\* loop stops at the first element that raises.
RECURSIVE PopRelationships(_)
PopRelationships(items) ==
    IF items = <<>> THEN <<>>
    ELSE IF RelationshipRaises(Head(items)) THEN items
    ELSE IF ~Head(items).ok
         THEN <<[Head(items) EXCEPT !.rel = Rel("absent", <<>>)]>> \o Tail(items)
    ELSE <<[Head(items) EXCEPT !.rel = Rel("absent", <<>>)]>>
         \o PopRelationships(Tail(items))

\* The document object as _evaluate leaves it.
Consumed(doc) ==
    IF IncludedMalformed(doc) \/ ~doc.hasData THEN doc
    ELSE [doc EXCEPT !.data = PopRelationships(@)]

\* The mutant of TransportFailed: the failure is remembered as an empty page.
TransportFailedMemo(q) == [q EXCEPT !.data = Some(<<>>)]

\* lines 55-57: API.request raised; nothing was assigned.
TransportFailed(q) == q

\* lines 51-79 with response_body None: resp is what the transport answers
\* if it is asked.  asked says whether it was.
Evaluate(q, resp) ==
    IF Cached(q) THEN [q |-> q, exc |-> "none", asked |-> FALSE]
    ELSE IF resp.fail
         THEN [q |-> TransportFailed(q), exc |-> "TransportError", asked |-> TRUE]
    ELSE LET r == EvaluateDoc(q, resp.doc)
         IN [q |-> r.q, exc |-> r.exc, asked |-> TRUE]

\* ------------------------------------------------------- the transport
\* The served collection: pages 1..env.npages of the path "/p", the page chosen
\* by the cursor parameter, each page linking to its neighbours.
PageKey == "page[cursor]"

Cursor(k) == Url("/p", <<<<PageKey, ToString(k)>>>>)

\* The page a request asks for: the first without a cursor, 0 for a cursor
\* the server does not know.
PageOf(params) ==
    IF PageKey \notin DOMAIN params THEN 1
    ELSE IF \E k \in 1..env.npages : params[PageKey].v = <<ToString(k)>>
         THEN CHOOSE k \in 1..env.npages : params[PageKey].v = <<ToString(k)>>
    ELSE 0

NextLink(k) == IF k >= 1 /\ k < env.npages THEN Some(Cursor(k + 1)) ELSE None
PreviousLink(k) == IF k > 1 THEN Some(Cursor(k - 1)) ELSE None

Owner == <<"users", "u1">>
GoodItem(k, j) ==
    Item(10 * k + j,
         IF j % 2 = 1 THEN Rel("ptr", Owner) ELSE Rel("absent", <<>>), TRUE)
FaultyItem(k, j, kind) ==
    IF kind = "null" THEN Item(10 * k + j, Rel("null", <<>>), TRUE)
    ELSE Item(10 * k + j, Rel("absent", <<>>), FALSE)

\* The data arrays page k may hold: of one of the served lengths, all
\* elements good or the last one making the loop of _evaluate raise.
DataLists(k) ==
    {[j \in 1..n |-> GoodItem(k, j)] : n \in env.sizes}
    \cup {[j \in 1..n |-> IF j = n THEN FaultyItem(k, j, kind) ELSE GoodItem(k, j)] :
            <<n, kind>> \in (env.sizes \ {0}) \X {"null", "new"}}

GoodIncluded == Some(<<Incl("users", "u1", TRUE)>>)

\* The well-formed data arrays of page k.
GoodLists(k) == {[j \in 1..n |-> GoodItem(k, j)] : n \in env.sizes}

\* The documents page k may be served as: the one document of a server
\* that has a single one; else well-formed ones and, from a server that is
\* not well-behaved, one with an element that raises, one without 'data',
\* one whose 'included' holds a record without an id.
Docs(k) ==
    IF "doc" \in DOMAIN env THEN {env.doc}
    ELSE IF k = 0 THEN {Doc(TRUE, <<>>, None, None, None)}
    ELSE {Doc(TRUE, d, GoodIncluded, NextLink(k), PreviousLink(k)) :
            d \in IF env.faulty THEN DataLists(k) ELSE GoodLists(k)}
         \cup (IF env.faulty
               THEN {Doc(FALSE, <<>>, None, NextLink(k), PreviousLink(k)),
                     Doc(TRUE, <<GoodItem(k, 1)>>,
                         Some(<<Incl("users", "u1", FALSE)>>),
                         NextLink(k), PreviousLink(k))}
               ELSE {})

NoAnswer == [fail |-> TRUE, doc |-> Doc(TRUE, <<>>, None, None, None)]

\* What API.request('get', url, params) may do: raise, or return a document.
Responses(params) ==
    (IF env.fails THEN {NoAnswer} ELSE {})
    \cup {[fail |-> FALSE, doc |-> d] : d \in Docs(PageOf(params))}

\* The answers instance i's evaluation may meet (one when it asks nothing).
Answers(i) ==
    IF Cached(qs[i]) THEN {NoAnswer} ELSE Responses(dicts[qs[i].params])

MayAsk(i) == Cached(qs[i]) \/ transport[i].calls < MaxCalls

\* --------------------------------------------------------------- state
\* A call of the program: the operation, the instance it was made on, the
\* exception it ended with, and (val) the value it returned or the argument
\* of the exception it raised, for the calls whose value is looked at.
Call(op, q, exc) == [op |-> op, q |-> q, exc |-> exc, val |-> None]
Value(call, v) == [call EXCEPT !.val = Some(v)]

\* The record of the request instance i made when its evaluation r asked
\* the transport: what was sent, whether a document came back and how many
\* elements its data array has, what the evaluation raised, and (body) the
\* document object as the evaluation left it.
Asked(i, r, resp) ==
    IF r.asked
    THEN [transport EXCEPT ![i] =
            [calls |-> @.calls + 1,
             returned |-> @.returned + (IF resp.fail THEN 0 ELSE 1),
             sent |-> Some([url |-> qs[i].url, params |-> dicts[qs[i].params]]),
             size |-> IF resp.fail THEN None ELSE Some(Len(resp.doc.data)),
             exc |-> r.exc,
             body |-> IF resp.fail THEN None ELSE Some(Consumed(resp.doc))]]
    ELSE transport

\* The mutant of Touch: the result is shared with every unevaluated
\* instance that has the same url and the same params.
TouchShared(i, resp) ==
    LET r == Evaluate(qs[i], resp)
    IN /\ qs' = [k \in DOMAIN qs |->
                   IF /\ ~Cached(qs[k])
                      /\ qs[k].url = qs[i].url
                      /\ dicts[qs[k].params] = dicts[qs[i].params]
                   THEN [qs[k] EXCEPT !.data = r.q.data,
                                      !.next_url = r.q.next_url,
                                      !.previous_url = r.q.previous_url]
                   ELSE qs[k]]
       /\ transport' = Asked(i, r, resp)

\* self._evaluate() on instance i.
Touch(i, resp) ==
    LET r == Evaluate(qs[i], resp)
    IN /\ qs' = [qs EXCEPT ![i] = r.q]
       /\ transport' = Asked(i, r, resp)

\* The mutant of Fresh: the constructor has issued the request.
FreshAsked == [calls |-> 1, returned |-> 0, sent |-> None, size |-> None,
               exc |-> "none", body |-> None]

\* A new instance has asked nothing (lines 21-27 issue no request).
Fresh == [calls |-> 0, returned |-> 0, sent |-> None, size |-> None,
          exc |-> "none", body |-> None]

\* Queryset(API, url, params) with params the dict pid of the heap ds (lines
\* 8-27): the query string is merged into that very dict.  now and tr are
\* the instances and their requests as the call finds them.
Construct(now, tr, ds, url, pid, op, parent) ==
    LET merged == [ds EXCEPT ![pid] = MergeParams(@, QueryParams(url.query))]
    IN /\ dicts' = merged
       /\ qs' = Append(now, NewQueryset(url.path, pid))
       /\ born' = Append(born, [url |-> url.path, params |-> merged[pid],
                                given |-> ds[pid], op |-> op,
                                parent |-> parent, cursor |-> url])
       /\ transport' = Append(tr, Fresh)

\* No generator yet.  mode: "pages" for all_pages(), "all" for all() over
\* its own all_pages(); pc: where all_pages() is suspended; page: its local
\* `page`; cur, index: the page all() is iterating and the next index.
Idle == [mode |-> "idle", pc |-> "idle", self |-> 0, page |-> 0,
         cur |-> 0, index |-> 0]
Nothing == [pages |-> <<>>, items |-> <<>>]

\* --------------------------------------------------------- construction
InputUrls == {Url("/p", <<>>), Url("/p", <<<<PageKey, "2">>>>)}
InputParams == {None, Some(Dict1("filter[x]", Str("1")))}

\* Queryset(API, url, params): `params` None makes a new dict; a dict the
\* caller hands in is used as it is.
New(url, params) ==
    /\ Len(qs) < env.room
    /\ LET ds == Append(dicts, IF IsNone(params) THEN EmptyDict ELSE The(params))
       IN Construct(qs, transport, ds, url, Len(ds), "new", 0)
    /\ last' = Call("new", Len(qs) + 1, "none")
    /\ UNCHANGED <<env, gen, out>>

\* The mutant of from_data: the document is not evaluated.
from_data_unevaluated(doc) ==
    /\ Len(qs) < env.room
    /\ qs' = Append(qs, NewQueryset("", Len(dicts) + 1))
    /\ dicts' = Append(dicts, EmptyDict)
    /\ born' = Append(born, [url |-> "", params |-> EmptyDict,
                             given |-> EmptyDict, op |-> "from_data",
                             parent |-> 0, cursor |-> Url("", <<>>)])
    /\ transport' = Append(transport, Fresh)
    /\ last' = Call("from_data", Len(qs) + 1, "none")
    /\ UNCHANGED <<env, gen, out>>

\* Queryset(API, '') and _evaluate(response_body) (lines 31-33); when
\* _evaluate raises the caller gets no instance.  holder is the instance
\* whose evaluation consumed this very document object before, 0 for a
\* document no evaluation has seen.
FromData(doc, holder) ==
    /\ Len(qs) < env.room
    /\ LET r == EvaluateDoc(NewQueryset("", Len(dicts) + 1), doc)
       IN IF r.exc # "none"
          THEN /\ last' = Call("from_data", 0, r.exc)
               /\ UNCHANGED <<qs, dicts, born, transport>>
          ELSE /\ qs' = Append(qs, r.q)
               /\ dicts' = Append(dicts, EmptyDict)
               /\ born' = Append(born, [url |-> "", params |-> EmptyDict,
                                        given |-> EmptyDict, op |-> "from_data",
                                        parent |-> holder, cursor |-> Url("", <<>>)])
               /\ transport' = Append(transport,
                                      [Fresh EXCEPT !.size = Some(Len(doc.data)),
                                                    !.body = Some(Consumed(doc))])
               /\ last' = Call("from_data", Len(qs) + 1, "none")
    /\ UNCHANGED <<env, gen, out>>

\* from_data (lines 29-33) of a document no evaluation has seen.
from_data(doc) == FromData(doc, 0)

\* from_data of the document object the evaluation of instance i consumed.
from_data_again(i) ==
    /\ ~IsNone(transport[i].body)
    /\ FromData(The(transport[i].body), i)

\* ------------------------------------------------------ list-like access
\* __len__ (lines 85-86)
len(i, resp) ==
    /\ MayAsk(i)
    /\ Touch(i, resp)
    /\ last' = Call("len", i, Evaluate(qs[i], resp).exc)
    /\ UNCHANGED <<dicts, born, env, gen, out>>

\* __getitem__ (lines 82-83), index counted from 0
getitem(i, index, resp) ==
    /\ MayAsk(i)
    /\ Touch(i, resp)
    /\ LET r == Evaluate(qs[i], resp)
       IN last' = Call("getitem", i,
                       IF r.exc # "none" THEN r.exc
                       ELSE IF index >= Len(The(r.q.data)) THEN "IndexError"
                       ELSE "none")
    /\ UNCHANGED <<dicts, born, env, gen, out>>

\* __repr__ (lines 88-89)
repr(i, resp) ==
    /\ MayAsk(i)
    /\ Touch(i, resp)
    /\ last' = Call("repr", i, Evaluate(qs[i], resp).exc)
    /\ UNCHANGED <<dicts, born, env, gen, out>>

\* iteration, Sequence.__iter__: self[0], self[1], ... until IndexError
iter(i, resp) ==
    /\ MayAsk(i)
    /\ Touch(i, resp)
    /\ last' = Call("iter", i, Evaluate(qs[i], resp).exc)
    /\ UNCHANGED <<dicts, born, env, gen, out>>

\* ----------------------------------------------------------- pagination
\* has_next (lines 111-112)
has_next(i, resp) ==
    /\ MayAsk(i)
    /\ Touch(i, resp)
    /\ last' = Call("has_next", i, Evaluate(qs[i], resp).exc)
    /\ UNCHANGED <<dicts, born, env, gen, out>>

\* has_previous (lines 117-118)
has_previous(i, resp) ==
    /\ MayAsk(i)
    /\ Touch(i, resp)
    /\ last' = Call("has_previous", i, Evaluate(qs[i], resp).exc)
    /\ UNCHANGED <<dicts, born, env, gen, out>>

\* Queryset(API, url, params) whose result the caller does not keep: what
\* is left of it is what the constructor did to the dict pid.
Discard(now, tr, ds, url, pid) ==
    /\ dicts' = [ds EXCEPT ![pid] = MergeParams(@, QueryParams(url.query))]
    /\ qs' = now
    /\ born' = born
    /\ transport' = tr

\* next (lines 114-115) and previous (lines 120-121): the cursor property
\* evaluates self, then Queryset(API, cursor, self._params) is handed the
\* receiver's own dict.  The caller keeps the new instance while it has
\* room for one more.
Step(i, resp, op) ==
    /\ MayAsk(i)
    /\ LET r == Evaluate(qs[i], resp)
           cursor == UrlOrEmpty(IF op = "next" THEN r.q.next_url
                                ELSE r.q.previous_url)
       IN IF r.exc # "none"
          THEN /\ qs' = [qs EXCEPT ![i] = r.q]
               /\ transport' = Asked(i, r, resp)
               /\ last' = Call(op, i, r.exc)
               /\ UNCHANGED <<dicts, born>>
          ELSE /\ IF Len(qs) < env.room
                  THEN Construct([qs EXCEPT ![i] = r.q], Asked(i, r, resp), dicts,
                                 cursor, qs[i].params, op, i)
                  ELSE Discard([qs EXCEPT ![i] = r.q], Asked(i, r, resp), dicts,
                               cursor, qs[i].params)
               /\ last' = Call(op, i, "none")
    /\ UNCHANGED <<env, gen, out>>

next(i, resp) == Step(i, resp, "next")
previous(i, resp) == Step(i, resp, "previous")

\* ------------------------------------------------------------- chaining
\* The mutant of Chain: the receiver's dict is used, not a copy of it.
ChainAliased(i, op, changes) ==
    /\ Len(qs) < env.room
    /\ Construct(qs, transport,
                 [dicts EXCEPT ![qs[i].params] = Update(@, changes)],
                 Url(qs[i].url, <<>>), qs[i].params, op, i)
    /\ last' = Call(op, i, "none")
    /\ UNCHANGED <<env, gen, out>>

\* params = dict(self._params); params[...] = ...
Chained(i, changes) == Update(dicts[qs[i].params], changes)

\* return self.__class__(self.API, self._url, params), params the copy
Chain(i, op, changes) ==
    /\ Len(qs) < env.room
    /\ LET ds == Append(dicts, Chained(i, changes))
       IN Construct(qs, transport, ds, Url(qs[i].url, <<>>), Len(ds), op, i)
    /\ last' = Call(op, i, "none")
    /\ UNCHANGED <<env, gen, out>>

\* line 142: "filter" + ''.join(f"[{part}]" for part in key.split('__'))
RECURSIVE Brackets(_)
Brackets(parts) ==
    IF parts = <<>> THEN ""
    ELSE "[" \o Head(parts) \o "]" \o Brackets(Tail(parts))
FilterKey(parts) == "filter" \o Brackets(parts)

\* A filter value: a plain value, or a Resource whose id is taken.
Plain(v) == [resource |-> FALSE, v |-> v]
Resource(id) == [resource |-> TRUE, v |-> id]
FilterInputs == {<<<<"a", "b">>, Resource("7")>>}

\* filter (lines 136-148), one keyword: parts is key.split('__')
filter(i, parts, value) ==
    Chain(i, "filter", Dict1(FilterKey(parts), Str(value.v)))

\* ','.join(fields)
RECURSIVE Join(_)
Join(fields) ==
    IF fields = <<>> THEN ""
    ELSE IF Len(fields) = 1 THEN fields[1]
    ELSE fields[1] \o "," \o Join(Tail(fields))
FieldInputs == {<<"a", "b">>}

\* _param_method (lines 164-173)
include(i, fields) == Chain(i, "include", Dict1("include", Str(Join(fields))))
sort(i, fields) == Chain(i, "sort", Dict1("sort", Str(Join(fields))))
fields(i, names) == Chain(i, "fields", Dict1("fields", Str(Join(names))))

\* page (lines 150-162): one positional argument, or keyword arguments
PageArgs == {<<>>, <<2>>}
PageKwargs == {EmptyDict, Dict1("cursor", IntVal(2))}
page(i, args, kwargs) ==
    IF Len(args) = 1 /\ kwargs = EmptyDict
    THEN Chain(i, "page", Dict1("page", IntVal(args[1])))
    ELSE IF Len(args) = 0 /\ kwargs # EmptyDict
    THEN Chain(i, "page",
               [k \in {"page[" \o key \o "]" : key \in DOMAIN kwargs} |->
                  kwargs[CHOOSE key \in DOMAIN kwargs : k = "page[" \o key \o "]"]])
    ELSE /\ last' = Call("page", i, "ValueError")
         /\ UNCHANGED <<qs, dicts, born, transport, env, gen, out>>

\* extra (lines 175-178)
ExtraInputs == {Dict1("limit", Str("5"))}
extra(i, kwargs) == Chain(i, "extra", kwargs)

\* ------------------------------------------------ get and serialization
\* The mutant of GetResult: whatever the length, the first item.
GetFirst(i, data) ==
    IF Len(data) = 0 THEN Call("get", i, "DoesNotExist")
    ELSE Value(Call("get", i, "none"), data[1])

\* lines 181-185 once len(self) has evaluated: the exception raised (with
\* its argument) or the item returned.
GetResult(i, data) ==
    IF Len(data) = 0 THEN Call("get", i, "DoesNotExist")
    ELSE IF Len(data) > 1
         THEN Value(Call("get", i, "MultipleObjectsReturned"), Len(data))
    ELSE Value(Call("get", i, "none"), data[1])

\* get (lines 180-185)
get(i, resp) ==
    /\ MayAsk(i)
    /\ Touch(i, resp)
    /\ LET r == Evaluate(qs[i], resp)
       IN last' = IF r.exc # "none" THEN Call("get", i, r.exc)
                  ELSE GetResult(i, The(r.q.data))
    /\ UNCHANGED <<dicts, born, env, gen, out>>

\* str() of a parameter value (the f-string of line 95): a string as it
\* is, an int in decimal, a list as Python prints it.
RECURSIVE Quoted(_)
Quoted(ss) ==
    IF ss = <<>> THEN ""
    ELSE IF Len(ss) = 1 THEN "'" \o ss[1] \o "'"
    ELSE "'" \o ss[1] \o "', " \o Quoted(Tail(ss))
Format(value) ==
    IF value.t = "list" THEN "[" \o Quoted(value.v) \o "]" ELSE value.v[1]

\* lines 92-96: the path, and with params the key=value strings joined
\* after a '?' (kept here as the set of them).
SelfUrl(url, params) ==
    [path |-> url,
     pairs |-> {k \o "=" \o Format(params[k]) : k \in DOMAIN params}]

\* lines 98-108 once has_next() has evaluated: with a cursor present,
\* self.next_url() (self.previous_url()) calls the value of the property,
\* a string, which raises TypeError; without cursors the links are built.
ToDictResult(i, q, params) ==
    IF ~IsNone(q.next_url) \/ ~IsNone(q.previous_url)
    THEN Call("to_dict", i, "TypeError")
    ELSE Value(Call("to_dict", i, "none"),
               [data |-> The(q.data),
                links |-> [self |-> SelfUrl(q.url, params),
                           next |-> None, previous |-> None]])

\* to_dict (lines 91-108)
to_dict(i, resp) ==
    /\ MayAsk(i)
    /\ Touch(i, resp)
    /\ LET r == Evaluate(qs[i], resp)
       IN last' = IF r.exc # "none" THEN Call("to_dict", i, r.exc)
                  ELSE ToDictResult(i, r.q, dicts[qs[i].params])
    /\ UNCHANGED <<dicts, born, env, gen, out>>

\* ------------------------------------------------------ all_pages, all
\* The mutants of YieldsSelf: the receiver is always, or never, yielded.
YieldsSelfAlways(q) == TRUE
YieldsSelfNever(q) == FALSE

\* line 124: if self.data
YieldsSelf(q) == The(q.data) # <<>>

\* The mutant of HasNext: no page has a next one.
HasNextNever(q) == FALSE

\* line 112: bool(self.next_url)
HasNext(q) == ~IsNone(q.next_url)

\* The mutant of ItemAt: the page is read from its end.
ItemAtReversed(q, index) == The(q.data)[Len(The(q.data)) - index]

\* line 83: self.data[index], index counted from 0
ItemAt(q, index) == The(q.data)[index + 1]

\* Calling the generator function runs none of its body.
all_pages(i) ==
    /\ gen.mode = "idle"
    /\ gen' = [mode |-> "pages", pc |-> "start", self |-> i, page |-> i,
               cur |-> 0, index |-> 0]
    /\ last' = Call("all_pages", i, "none")
    /\ UNCHANGED <<qs, dicts, born, transport, env, out>>

\* The mutant of all: an ordinary function, which evaluates the receiver
\* when it is called.
all_eager(i) ==
    /\ gen.mode = "idle"
    /\ MayAsk(i)
    /\ \E resp \in Answers(i) :
          /\ Touch(i, resp)
          /\ last' = Call("all", i, Evaluate(qs[i], resp).exc)
    /\ gen' = [mode |-> "all", pc |-> "start", self |-> i, page |-> i,
               cur |-> 0, index |-> 0]
    /\ UNCHANGED <<dicts, born, env, out>>

all(i) ==
    /\ gen.mode = "idle"
    /\ gen' = [mode |-> "all", pc |-> "start", self |-> i, page |-> i,
               cur |-> 0, index |-> 0]
    /\ last' = Call("all", i, "none")
    /\ UNCHANGED <<qs, dicts, born, transport, env, out>>

\* What all_pages() does when it is resumed (lines 123-129): it evaluates
\* `page` (self.data at line 124, page.has_next() at line 127), then yields
\* self, or follows the next cursor and yields the new page, or ends.
Resume(resp) ==
    LET r == Evaluate(qs[gen.page], resp)
    IN [r |-> r,
        what |-> IF r.exc # "none" THEN "raise"
                 ELSE IF gen.pc = "start" /\ YieldsSelf(r.q) THEN "self"
                 ELSE IF HasNext(r.q) THEN "follow"
                 ELSE "stop"]

\* One resumption of all_pages(), by the consumer (mode "pages") or by
\* all() when it needs its next page (mode "all").
Advance(resp) ==
    /\ gen.mode \in {"pages", "all"}
    /\ gen.pc \in {"start", "self", "page"}
    /\ gen.cur = 0
    /\ MayAsk(gen.page)
    /\ LET p == gen.page
           s == Resume(resp)
           new == Len(qs) + 1
       IN /\ s.what = "follow" => Len(qs) < env.room
          /\ IF s.what = "follow"
             THEN Construct([qs EXCEPT ![p] = s.r.q], Asked(p, s.r, resp), dicts,
                            The(s.r.q.next_url), qs[p].params, "next", p)
             ELSE /\ qs' = [qs EXCEPT ![p] = s.r.q]
                  /\ transport' = Asked(p, s.r, resp)
                  /\ UNCHANGED <<dicts, born>>
          /\ gen' = [gen EXCEPT
                       !.pc = CASE s.what = "raise" -> "raised"
                                [] s.what = "self" -> "self"
                                [] s.what = "follow" -> "page"
                                [] OTHER -> "done",
                       !.page = IF s.what = "follow" THEN new ELSE @,
                       !.cur = IF gen.mode = "pages" THEN 0
                               ELSE IF s.what = "self" THEN p
                               ELSE IF s.what = "follow" THEN new
                               ELSE 0]
          /\ out' = [out EXCEPT
                       !.pages = IF s.what = "self" THEN Append(@, p)
                                 ELSE IF s.what = "follow" THEN Append(@, new)
                                 ELSE @]
          /\ last' = Call(gen.mode, gen.self, s.r.exc)
    /\ UNCHANGED env

\* `yield from page` in all() (line 133): Sequence.__iter__ reads page[0],
\* page[1], ... and ends the page at the first IndexError.
Flatten(resp) ==
    /\ gen.mode = "all"
    /\ gen.cur # 0
    /\ MayAsk(gen.cur)
    /\ Touch(gen.cur, resp)
    /\ LET r == Evaluate(qs[gen.cur], resp)
       IN IF r.exc # "none"
          THEN /\ gen' = [gen EXCEPT !.pc = "raised", !.cur = 0]
               /\ out' = out
          ELSE IF gen.index >= Len(The(r.q.data))
          THEN /\ gen' = [gen EXCEPT !.cur = 0, !.index = 0]
               /\ out' = out
          ELSE /\ gen' = [gen EXCEPT !.index = @ + 1]
               /\ out' = [out EXCEPT !.items = Append(@, ItemAt(r.q, gen.index))]
    /\ last' = Call("all", gen.self, Evaluate(qs[gen.cur], resp).exc)
    /\ UNCHANGED <<dicts, born, env>>

\* --------------------------------------------------- the specifications
Instances == 1..Len(qs)

Start(e) ==
    /\ qs = <<>>
    /\ dicts = <<>>
    /\ born = <<>>
    /\ transport = <<>>
    /\ last = Call("init", 0, "none")
    /\ env = e
    /\ gen = Idle
    /\ out = Nothing

\* The operations that observe the data of an instance.
Observe ==
    \/ \E i \in Instances : \E resp \in Answers(i) : len(i, resp)
    \/ \E i \in Instances : \E resp \in Answers(i) :
          \E index \in 0..MaxItems : getitem(i, index, resp)
    \/ \E i \in Instances : \E resp \in Answers(i) : repr(i, resp)
    \/ \E i \in Instances : \E resp \in Answers(i) : iter(i, resp)
    \/ \E i \in Instances : \E resp \in Answers(i) : has_next(i, resp)
    \/ \E i \in Instances : \E resp \in Answers(i) : has_previous(i, resp)
    \/ \E i \in Instances : \E resp \in Answers(i) : get(i, resp)
    \/ \E i \in Instances : \E resp \in Answers(i) : to_dict(i, resp)

\* Evaluation and access: every data-observing operation and the cursor
\* steps, against a server that may fail and may serve malformed documents.
Init == Start([npages |-> MaxPages, sizes |-> {0, MaxItems}, faulty |-> TRUE,
              fails |-> TRUE, room |-> MaxInst])

Next ==
    \/ New(Cursor(2), None)
    \/ \E d \in Docs(1) : from_data(d)
    \/ Observe
    \/ \E i \in Instances : \E resp \in Answers(i) : next(i, resp)
    \/ \E i \in Instances : \E resp \in Answers(i) : previous(i, resp)

Spec == Init /\ [][Next]_vars

\* Chaining and cursors: every operation that makes a Queryset, against a
\* server that answers every request with a well-formed document.
InitChain == Start([npages |-> MaxPages, sizes |-> {1}, faulty |-> FALSE,
                    fails |-> FALSE, room |-> MaxChain])

NextChain ==
    \/ \E url \in InputUrls, params \in InputParams : New(url, params)
    \/ \E i \in Instances : \E resp \in Answers(i) : len(i, resp)
    \/ \E i \in Instances : \E resp \in Answers(i) : next(i, resp)
    \/ \E i \in Instances : \E resp \in Answers(i) : previous(i, resp)
    \/ \E i \in Instances : \E f \in FilterInputs : filter(i, f[1], f[2])
    \/ \E i \in Instances : \E fs \in FieldInputs : include(i, fs)
    \/ \E i \in Instances : \E fs \in FieldInputs : sort(i, fs)
    \/ \E i \in Instances : \E fs \in FieldInputs : fields(i, fs)
    \/ \E i \in Instances : \E a \in PageArgs, kw \in PageKwargs : page(i, a, kw)
    \/ \E i \in Instances : \E kw \in ExtraInputs : extra(i, kw)

SpecChain == InitChain /\ [][NextChain]_vars

\* Construction: per run one query string and one explicit mapping; the
\* caller constructs from the url with the query string, from the bare path
\* with the mapping, or from both, then chains and evaluates.
NewInputs ==
    {[query |-> <<<<"filter[x]", "1">>>>, explicit |-> Dict1("filter[x]", Str("1"))],
     [query |-> <<<<"filter[x]", "1">>>>, explicit |-> Dict1("filter[x]", Str("2"))],
     [query |-> <<<<"filter[x]", "1">>>>, explicit |-> Dict1("sort", Str("a"))],
     [query |-> <<<<"b", "">>>>, explicit |-> Dict1("b", Str(""))],
     [query |-> <<<<"a", "1">>, <<"a", "2">>>>,
      explicit |-> Dict1("a", List(<<"1", "2">>))],
     [query |-> <<<<PageKey, "2">>, <<"filter[x]", "1">>>>,
      explicit |-> [k \in {PageKey, "filter[x]"} |->
                      IF k = PageKey THEN Str("2") ELSE Str("1")]]}

InitNew ==
    \E inputs \in NewInputs :
        Start([npages |-> MaxPages, sizes |-> {1}, faulty |-> FALSE,
               fails |-> FALSE, room |-> MaxNew, inputs |-> inputs])

NextNew ==
    \/ New(Url("/p", env.inputs.query), None)
    \/ New(Url("/p", <<>>), Some(env.inputs.explicit))
    \/ New(Url("/p", env.inputs.query), Some(env.inputs.explicit))
    \/ \E i \in Instances : \E resp \in Answers(i) : len(i, resp)
    \/ \E i \in Instances : \E f \in FilterInputs : filter(i, f[1], f[2])
    \/ \E i \in Instances : \E fs \in FieldInputs : include(i, fs)
    \/ \E i \in Instances : \E fs \in FieldInputs : sort(i, fs)
    \/ \E i \in Instances : \E fs \in FieldInputs : fields(i, fs)
    \/ \E i \in Instances : \E a \in PageArgs, kw \in PageKwargs : page(i, a, kw)
    \/ \E i \in Instances : \E kw \in ExtraInputs : extra(i, kw)

SpecNew == InitNew /\ [][NextNew]_vars

\* Documents: one document per run, whose last element has a relationship
\* of any shape, evaluated through from_data (twice over the same object
\* too) or served by a transport that does not fail, and observed.
Stranger == <<"users", "u2">>
RelInputs == {Rel("absent", <<>>), Rel("none", <<>>), Rel("nodata", <<>>),
              Rel("null", <<>>), Rel("ptr", Owner), Rel("ptr", Stranger)}
InputLists ==
    {<<>>} \cup
    {[j \in 1..n |-> IF j = n THEN Item(10 + j, rel, TRUE) ELSE GoodItem(1, j)] :
        <<n, rel>> \in (1..MaxItems) \X RelInputs}
InputLinks == {<<None, None>>, <<Some(Cursor(2)), None>>, <<None, Some(Cursor(1))>>}
InputDocs ==
    {Doc(TRUE, d, GoodIncluded, l[1], l[2]) : <<d, l>> \in InputLists \X InputLinks}

InitDocs ==
    \E doc \in InputDocs :
        Start([npages |-> 1, sizes |-> {}, faulty |-> FALSE, fails |-> FALSE,
               room |-> MaxDocs, doc |-> doc])

NextDocs ==
    \/ New(Url("/p", <<>>), None)
    \/ from_data(env.doc)
    \/ \E i \in Instances : from_data_again(i)
    \/ Observe

SpecDocs == InitDocs /\ [][NextDocs]_vars

\* Walking the pages: one receiver on the first page of a collection of
\* 1..MaxPages pages, consumed through all_pages() or all(); the consumer
\* may look at any page it holds.
PageRoots == {EmptyDict, Dict1("filter[x]", Str("1")), Dict1(PageKey, Str("1"))}

StartPages(fails) ==
    \E n \in 1..MaxPages, d \in PageRoots :
        /\ qs = <<NewQueryset("/p", 1)>>
        /\ dicts = <<d>>
        /\ born = <<[url |-> "/p", params |-> d, given |-> d, op |-> "new",
                     parent |-> 0, cursor |-> Url("/p", <<>>)]>>
        /\ transport = <<Fresh>>
        /\ last = Call("new", 1, "none")
        /\ env = [npages |-> n, sizes |-> 0..MaxItems, faulty |-> FALSE,
                  fails |-> fails, room |-> MaxPages]
        /\ gen = Idle
        /\ out = Nothing

InitPages == StartPages(TRUE)

NextPages ==
    \/ all_pages(1)
    \/ all(1)
    \/ gen.page \in Instances /\ \E resp \in Answers(gen.page) : Advance(resp)
    \/ gen.cur \in Instances /\ \E resp \in Answers(gen.cur) : Flatten(resp)
    \/ \E i \in Instances : \E resp \in Answers(i) : gen.mode # "all" /\ len(i, resp)

SpecPages == InitPages /\ [][NextPages]_vars

\* Walking to the end: the same receiver and collection with a transport
\* that never fails, and a consumer that keeps pulling from the generator
\* it has started: each pull resumes all_pages() or reads on in the page
\* all() is iterating.
InitWalk == StartPages(FALSE)

Pull ==
    \/ gen.page \in Instances /\ \E resp \in Answers(gen.page) : Advance(resp)
    \/ gen.cur \in Instances /\ \E resp \in Answers(gen.cur) : Flatten(resp)

NextWalk ==
    \/ all_pages(1)
    \/ all(1)
    \/ Pull

SpecWalk == InitWalk /\ [][NextWalk]_vars /\ WF_vars(Pull)

\* ================================================================ claims
ChainOps == {"filter", "sort", "include", "fields", "page", "extra"}
ObserveOps == {"len", "getitem", "repr", "iter", "has_next", "has_previous",
               "get", "to_dict"}

\* C1 (as claimed): once a transport request of an instance has returned
\* successfully, no step issues another request of that instance or changes
\* its cached item list.
C1_NoRequestAfterReturn ==
    [][\A i \in Instances :
          transport[i].returned >= 1 =>
             /\ transport'[i].calls = transport[i].calls
             /\ qs'[i].data = qs[i].data]_vars

\* C1 (amended): once an evaluation has set the cache of an instance (its
\* item list is no longer None, be it empty), no step issues another
\* request of that instance or changes its cached item list.
C1_MemoizedOnceCached ==
    [][\A i \in Instances :
          ~IsNone(qs[i].data) =>
             /\ transport'[i].calls = transport[i].calls
             /\ qs'[i].data = qs[i].data]_vars

\* An instance evaluated to an empty page by next() or previous() (the call
\* has left its token in the instance's dict), then observed again by
\* len(), with one request in all.
C1_Witness ==
    \E i \in Instances :
        /\ born[i].op = "new"
        /\ dicts[qs[i].params] # born[i].params
        /\ last = Call("len", i, "none")
        /\ qs[i].data = Some(<<>>)
        /\ transport[i].calls = 1 /\ transport[i].returned = 1

\* C4: a request that fails surfaces as the transport's error, leaves the
\* instance exactly as it was (data and both cursors unset), and the next
\* observation asks the transport again, whatever it is about to answer.
C4_TransportFailureNotMemoized ==
    [][\A i \in Instances :
          (/\ transport'[i].calls = transport[i].calls + 1
           /\ transport'[i].returned = transport[i].returned) =>
             /\ last'.exc = "TransportError"
             /\ qs'[i] = qs[i]
             /\ IsNone(qs'[i].data)
             /\ IsNone(qs'[i].next_url) /\ IsNone(qs'[i].previous_url)
             /\ \A resp \in Responses(dicts'[qs'[i].params]) :
                    Evaluate(qs'[i], resp).asked]_vars

\* Two consecutive failures of one instance, still unevaluated.
C4_Witness ==
    \E i \in Instances :
        /\ transport[i].calls >= 2 /\ transport[i].returned = 0
        /\ transport[i].exc = "TransportError"
        /\ last.exc = "TransportError" /\ last.q = i
        /\ IsNone(qs[i].data)

\* C5 (as claimed): every instance is either unevaluated (data and cursors
\* unset) or fully evaluated: its last evaluation raised nothing and its
\* list holds one entity per element of the document's data array.
C5_NoPartialResults ==
    \A i \in Instances :
        \/ /\ IsNone(qs[i].data)
           /\ IsNone(qs[i].next_url) /\ IsNone(qs[i].previous_url)
        \/ /\ ~IsNone(qs[i].data)
           /\ transport[i].exc = "none"
           /\ ~IsNone(transport[i].size)
           /\ Len(The(qs[i].data)) = The(transport[i].size)

\* C6: an instance built by from_data is evaluated and has never asked the
\* transport.
C6_FromDataNeverFetches ==
    \A i \in Instances :
        born[i].op = "from_data" =>
            ~IsNone(qs[i].data) /\ transport[i].calls = 0

\* An instance from_data built from a document without elements, and a
\* data-observing operation has just run on it.
C6_Witness ==
    \E i \in Instances :
        /\ born[i].op = "from_data"
        /\ qs[i].data = Some(<<>>)
        /\ last.op \in ObserveOps /\ last.q = i

\* C2: a step that makes a new instance by a chaining call leaves the
\* receiver's record (url, dict, data, cursors) and the contents of the
\* receiver's dict as they were, and the new instance holds a dict no
\* instance held before the call.
C2_ChainingLeavesReceiver ==
    [][(Len(qs') = Len(qs) + 1 /\ born'[Len(qs')].op \in ChainOps) =>
          LET new == Len(qs')
              i == born'[new].parent
          IN /\ new # i
             /\ qs'[i] = qs[i]
             /\ dicts'[qs[i].params] = dicts[qs[i].params]
             /\ \A k \in Instances : qs'[new].params # qs[k].params
             /\ \A k \in Instances : dicts'[qs[k].params] = dicts[qs[k].params]]_vars

\* A chaining call made on an evaluated receiver, whose result holds other
\* parameters than the receiver.
C2_Witness ==
    \E j \in Instances :
        /\ born[j].op \in ChainOps
        /\ ~IsNone(qs[born[j].parent].data)
        /\ IsNone(qs[j].data)
        /\ dicts[qs[j].params] # dicts[qs[born[j].parent].params]

\* C3 (as claimed): every instance has the url and the params it had when
\* its construction finished.
C3_IdentityNeverChanges ==
    \A i \in Instances :
        /\ qs[i].url = born[i].url
        /\ dicts[qs[i].params] = born[i].params

\* C7 (as claimed): an instance made by next() or previous() from a cursor
\* has the cursor's path as url, and the request of its evaluation carries
\* the receiver's parameters of the time of the call with the cursor's query
\* parameters written over them.
C7_CursorRequest ==
    \A i \in Instances :
        (born[i].op \in {"next", "previous"} /\ born[i].cursor.query # <<>>) =>
            /\ qs[i].url = born[i].cursor.path
            /\ ~IsNone(transport[i].sent) =>
                 /\ The(transport[i].sent).url = born[i].cursor.path
                 /\ The(transport[i].sent).params =
                        Update(born[i].given, QueryParams(born[i].cursor.query))

\* The page of the collection an instance was served, by its elements' ids.
ServedPage(i) == The(qs[i].data)[1].id \div 10

\* C8: when all_pages() has ended over a chain of n non-empty pages and no
\* request failed, it has yielded exactly n instances, the receiver first
\* and then each page made from its predecessor's next cursor, instance k
\* holding page k, and every instance has asked the transport exactly once,
\* for its own page.
C8_AllPagesYieldsChain ==
    (/\ gen.mode = "pages" /\ gen.pc = "done"
     /\ \A i \in Instances : transport[i].calls = transport[i].returned
     /\ \A i \in Instances : ~IsNone(qs[i].data) /\ The(qs[i].data) # <<>>) =>
        /\ out.pages = [k \in 1..env.npages |-> k]
        /\ out.pages[1] = gen.self
        /\ Len(qs) = env.npages
        /\ \A k \in 2..env.npages :
              born[k].op = "next" /\ born[k].parent = k - 1
        /\ \A k \in 1..env.npages :
              /\ ServedPage(k) = k
              /\ transport[k].calls = 1
              /\ PageOf(The(transport[k].sent).params) = k

\* all_pages() has ended over three non-empty pages.
C8_Witness ==
    /\ gen.mode = "pages" /\ gen.pc = "done"
    /\ env.npages >= 3
    /\ Len(out.pages) >= 3
    /\ \A i \in Instances : transport[i].calls = transport[i].returned
    /\ \A i \in Instances : ~IsNone(qs[i].data) /\ The(qs[i].data) # <<>>

\* C9: when the receiver's evaluated page has no items, all_pages() never
\* yields the receiver; without a next link it yields nothing, and with one
\* the first instance it yields is the one made from that link.
C9_EmptyReceiverNotYielded ==
    (/\ gen.mode = "pages"
     /\ qs[gen.self].data = Some(<<>>)) =>
        /\ \A k \in 1..Len(out.pages) : out.pages[k] # gen.self
        /\ IsNone(qs[gen.self].next_url) => out.pages = <<>>
        /\ (~IsNone(qs[gen.self].next_url) /\ out.pages # <<>>) =>
              /\ born[out.pages[1]].op = "next"
              /\ born[out.pages[1]].parent = gen.self
              /\ born[out.pages[1]].cursor = The(qs[gen.self].next_url)

\* all_pages() has ended after an empty first page with a next link.
C9_Witness ==
    /\ gen.mode = "pages" /\ gen.pc = "done"
    /\ qs[gen.self].data = Some(<<>>)
    /\ ~IsNone(qs[gen.self].next_url)
    /\ out.pages # <<>>

\* The items of the first n pages all_pages() has yielded, page after page.
RECURSIVE ItemsOf(_)
ItemsOf(n) ==
    IF n = 0 THEN <<>>
    ELSE ItemsOf(n - 1) \o
         (IF IsNone(qs[out.pages[n]].data) THEN <<>>
          ELSE The(qs[out.pages[n]].data))

\* C10: what all() has yielded is the item lists of the pages its
\* all_pages() has yielded, in page order and each in its own order: every
\* page before the one being read in full, the one being read up to the
\* index reached; when all() has ended, all of them in full.
C10_AllIsConcatenation ==
    gen.mode = "all" =>
        IF gen.cur # 0
        THEN /\ gen.cur = out.pages[Len(out.pages)]
             /\ out.items =
                  ItemsOf(Len(out.pages) - 1) \o
                  (IF gen.index = 0 THEN <<>>
                   ELSE SubSeq(The(qs[gen.cur].data), 1, gen.index))
        ELSE gen.pc # "raised" => out.items = ItemsOf(Len(out.pages))

\* all() has ended after yielding the items of at least two pages, one of
\* them with more than one item.
C10_Witness ==
    /\ gen.mode = "all" /\ gen.pc = "done" /\ gen.cur = 0
    /\ Len(out.pages) >= 2
    /\ \E k \in 1..Len(out.pages) : Len(The(qs[out.pages[k]].data)) >= 2
    /\ \A k \in 1..Len(out.pages) : Len(The(qs[out.pages[k]].data)) >= 1

\* C11: a call of get() on instance i issues at most one request, and none
\* when i is cached, in which case it leaves i as it is; all it does to i
\* is evaluate it; and unless the evaluation raised, i is cached and get()
\* raised DoesNotExist for no item, MultipleObjectsReturned with the number
\* of items for more than one, and returned the item for exactly one.
C11_GetContract ==
    [][last'.op = "get" =>
          LET i == last'.q
              data == The(qs'[i].data)
          IN /\ transport'[i].calls <= transport[i].calls + 1
             /\ Cached(qs[i]) =>
                   transport'[i].calls = transport[i].calls /\ qs'[i] = qs[i]
             /\ \E resp \in Answers(i) : qs'[i] = Evaluate(qs[i], resp).q
             /\ \A j \in Instances : j # i => qs'[j] = qs[j]
             /\ IF last'.exc \in {"none", "DoesNotExist", "MultipleObjectsReturned"}
                THEN /\ Cached(qs'[i])
                     /\ Len(data) = 0 => last' = Call("get", i, "DoesNotExist")
                     /\ Len(data) > 1 =>
                           last' = Value(Call("get", i, "MultipleObjectsReturned"),
                                         Len(data))
                     /\ Len(data) = 1 =>
                           last' = Value(Call("get", i, "none"), data[1])
                ELSE /\ ~Cached(qs[i])
                     /\ transport'[i].calls = transport[i].calls + 1
                     /\ transport'[i].exc = last'.exc]_vars

\* get() has returned the only item of a page it fetched with one request.
C11_Witness ==
    /\ last.op = "get" /\ last.exc = "none"
    /\ last.q \in Instances
    /\ transport[last.q].calls = 1 /\ transport[last.q].exc = "none"
    /\ transport[last.q].size = Some(1)
    /\ last.val = Some(The(qs[last.q].data)[1])

\* C12 (as claimed): an instance constructed from a url and an explicit
\* mapping holds the url's query parameters with the explicit ones written
\* over them: every key of either source, the explicit value on collision.
C12_ExplicitOverrides ==
    \A i \in Instances :
        born[i].op = "new" =>
            born[i].params =
                Update(QueryParams(born[i].cursor.query), born[i].given)

\* The pairs of a query string as a caller writes them in a mapping: each
\* key with its value, or with the list of its values when it has several.
PairValues(query, key) ==
    LET at == SelectSeq([j \in 1..Len(query) |-> j],
                        LAMBDA j : query[j][1] = key)
    IN [n \in 1..Len(at) |-> query[at[n]][2]]
SamePairs(query) ==
    [k \in {query[j][1] : j \in 1..Len(query)} |->
        IF Len(PairValues(query, k)) = 1 THEN Str(PairValues(query, k)[1])
        ELSE List(PairValues(query, k))]

\* i was constructed from a url with a query string and nothing else, j
\* from the bare path of that url with the same pairs as explicit params.
QueryAndExplicit(i, j) ==
    /\ born[i].op = "new" /\ born[j].op = "new"
    /\ born[i].cursor.query # <<>> /\ born[i].given = EmptyDict
    /\ born[j].cursor = Url(born[i].cursor.path, <<>>)
    /\ born[j].given = SamePairs(born[i].cursor.query)

\* The arguments of the chaining calls, as the changes they make.
ChainChanges ==
    {Dict1(FilterKey(f[1]), Str(f[2].v)) : f \in FilterInputs}
    \cup {Dict1(name, Str(Join(fs))) :
            <<name, fs>> \in {"include", "sort", "fields"} \X FieldInputs}
    \cup {Dict1("page", IntVal(a[1])) : a \in PageArgs \ {<<>>}}
    \cup {[k \in {"page[" \o key \o "]" : key \in DOMAIN kw} |->
             kw[CHOOSE key \in DOMAIN kw : k = "page[" \o key \o "]"]] :
            kw \in PageKwargs \ {EmptyDict}}
    \cup ExtraInputs

\* Same url and params, the same request when both have been evaluated,
\* and the same url and params handed to the result of every chaining call.
Indistinguishable(i, j) ==
    /\ qs[i].url = qs[j].url
    /\ dicts[qs[i].params] = dicts[qs[j].params]
    /\ (~IsNone(transport[i].sent) /\ ~IsNone(transport[j].sent)) =>
          transport[i].sent = transport[j].sent
    /\ \A c \in ChainChanges : Chained(i, c) = Chained(j, c)

\* C13 (as claimed): an instance constructed from a url with a query string
\* and one constructed from the bare path with the same pairs as explicit
\* params are indistinguishable.
C13_QueryStringIsParams ==
    \A i, j \in Instances :
        QueryAndExplicit(i, j) => Indistinguishable(i, j)

\* C13 (amended): the same, for a query string in which every pair has a
\* value that is not blank.
C13_NonBlankQueryStringIsParams ==
    \A i, j \in Instances :
        (/\ QueryAndExplicit(i, j)
         /\ \A n \in 1..Len(born[i].cursor.query) :
               born[i].cursor.query[n][2] # "") =>
            Indistinguishable(i, j)

\* One instance from a url with two non-blank pairs, one from the bare path
\* and the mapping of these pairs, both evaluated with one request each.
C13_Witness ==
    \E i, j \in Instances :
        /\ QueryAndExplicit(i, j)
        /\ Len(born[i].cursor.query) = 2
        /\ \A n \in 1..Len(born[i].cursor.query) :
              born[i].cursor.query[n][2] # ""
        /\ transport[i].calls = 1 /\ transport[j].calls = 1

\* C14 (as claimed): over documents whose relationships are absent, null,
\* without a pointer, with a null pointer or with a pointer to a record that
\* is or is not in included, from_data never raises, and every instance
\* that has consumed the run's document has completed its evaluation with
\* one entity per element, element n's relationship resolved iff it has a
\* non-null pointer whose (type, id) is a key of the included table.
C14_RelationshipsResolved ==
    /\ last.op = "from_data" => last.exc = "none"
    /\ \A i \in Instances :
          ~IsNone(transport[i].body) =>
             /\ transport[i].exc = "none"
             /\ Len(The(qs[i].data)) = Len(env.doc.data)
             /\ born[i].parent = 0 =>
                   \A n \in 1..Len(The(qs[i].data)) :
                       The(qs[i].data)[n].owner.resolved
                         <=> (/\ env.doc.data[n].rel.kind = "ptr"
                              /\ env.doc.data[n].rel.key \in IncludedKeys(env.doc))

\* C15 (as claimed): to_dict() on a fully evaluated instance succeeds and
\* returns links with the keys self, next and previous, where next and
\* previous are the instance's cursors, null when it has none.
C15_ToDictLinks ==
    (/\ last.op = "to_dict"
     /\ last.q \in Instances
     /\ Cached(qs[last.q])
     /\ transport[last.q].exc = "none") =>
        /\ last.exc = "none"
        /\ DOMAIN The(last.val).links = {"self", "next", "previous"}
        /\ The(last.val).links.next = qs[last.q].next_url
        /\ The(last.val).links.previous = qs[last.q].previous_url

\* C20 (as claimed): the document object an evaluation has consumed still
\* has every element's relationships entry, and an instance built by
\* from_data from that object has, element by element, the relationships of
\* the instance that consumed it first.
C20_DocumentUnchanged ==
    /\ \A i \in Instances :
          ~IsNone(transport[i].body) =>
             \A n \in 1..Len(env.doc.data) :
                 The(transport[i].body).data[n].rel = env.doc.data[n].rel
    /\ \A j \in Instances :
          (born[j].op = "from_data" /\ born[j].parent # 0) =>
             [n \in 1..Len(The(qs[j].data)) |-> The(qs[j].data)[n].owner]
               = [n \in 1..Len(The(qs[born[j].parent].data)) |->
                    The(qs[born[j].parent].data)[n].owner]

\* The operations that observe the data of an instance, the cursor steps
\* among them.
DataOps == ObserveOps \cup {"next", "previous"}

\* The cache of an instance: its item list and its cursors.
CacheOf(q) == <<q.data, q.next_url, q.previous_url>>

\* C16: the instance a chaining call, next() or previous() returns is
\* unevaluated and has asked nothing, whatever the receiver's cache; a step
\* changes the cache and the requests of no instance but the one the call
\* was made on; and an instance whose cache a step fills has issued a
\* request of its own in that step, for its own url and params.
C16_PerInstanceCache ==
    [][/\ (/\ Len(qs') = Len(qs) + 1
           /\ born'[Len(qs')].op \in ChainOps \cup {"next", "previous"}) =>
             /\ CacheOf(qs'[Len(qs')]) = <<None, None, None>>
             /\ transport'[Len(qs')].calls = 0
       /\ \A j \in Instances :
             j # last'.q =>
                /\ CacheOf(qs'[j]) = CacheOf(qs[j])
                /\ transport'[j] = transport[j]
       /\ \A j \in Instances :
             (~Cached(qs[j]) /\ Cached(qs'[j])) =>
                /\ transport'[j].calls = transport[j].calls + 1
                /\ transport'[j].sent =
                      Some([url |-> qs[j].url, params |-> dicts[qs[j].params]])]_vars

\* Two instances with the same url and equal params in dicts of their own,
\* both evaluated, with one request each.
C16_Witness ==
    \E i, j \in Instances :
        /\ i # j
        /\ qs[i].params # qs[j].params
        /\ qs[i].url = qs[j].url
        /\ dicts[qs[i].params] = dicts[qs[j].params]
        /\ Cached(qs[i]) /\ Cached(qs[j])
        /\ transport[i].calls = 1 /\ transport[j].calls = 1
        /\ transport[i].sent = transport[j].sent

\* C17: a construction or a chaining call issues no request, and the
\* instance it makes has asked nothing and is unevaluated; a step in which
\* an instance issues a request is a data-observing operation on that
\* instance; and a data-observing operation on an unevaluated instance
\* issues its request.
C17_DeferredEvaluation ==
    [][/\ last'.op \in ChainOps \cup {"new"} =>
             /\ \A j \in Instances : transport'[j] = transport[j]
             /\ Len(qs') = Len(qs) + 1 =>
                   /\ transport'[Len(qs')].calls = 0
                   /\ IsNone(qs'[Len(qs')].data)
       /\ Len(qs') = Len(qs) + 1 => transport'[Len(qs')].calls = 0
       /\ \A j \in Instances :
             transport'[j].calls # transport[j].calls =>
                /\ last'.op \in DataOps /\ last'.q = j
                /\ ~Cached(qs[j])
                /\ transport'[j].calls = transport[j].calls + 1
       /\ (last'.op \in DataOps /\ last'.q \in Instances /\ ~Cached(qs[last'.q])) =>
             transport'[last'.q].calls = transport[last'.q].calls + 1]_vars

\* An instance made by a chaining call on an unevaluated receiver, which
\* has still asked nothing, has just issued its first request, in len().
C17_Witness ==
    \E j \in Instances :
        /\ born[j].op \in ChainOps
        /\ transport[born[j].parent].calls = 0
        /\ IsNone(qs[born[j].parent].data)
        /\ last = Call("len", j, "none")
        /\ transport[j].calls = 1

\* The requests the first n instances have issued.
RECURSIVE Requests(_)
Requests(n) == IF n = 0 THEN 0 ELSE Requests(n - 1) + transport[n].calls

\* C18: over a chain of env.npages pages whose last has no next link and a
\* transport that never fails, a consumer that keeps pulling from
\* all_pages() or all() eventually sees the sequence end, and by then as
\* many requests have been issued as the chain has pages.
C18_WalkTerminates ==
    (gen.mode # "idle") ~>
        (/\ gen.pc = "done" /\ gen.cur = 0
         /\ Requests(Len(qs)) = env.npages)

\* all() has ended over the longest chain, one request per page.
C18_Witness ==
    /\ gen.mode = "all" /\ gen.pc = "done" /\ gen.cur = 0
    /\ env.npages = MaxPages
    /\ Len(qs) = MaxPages
    /\ \A i \in Instances : transport[i].calls = 1

\* C19: calling all() issues no request; while all() is consumed, a step in
\* which an instance issues a request is either the first resumption,
\* asking for the receiver's page with nothing yielded yet, or the read of
\* the first index of the page yielded last, with every item of every page
\* before it yielded; and the page being read is the last instance made.
C19_LazyPageWalk ==
    [][/\ (gen.mode = "idle" /\ gen'.mode = "all") => transport' = transport
       /\ gen'.mode = "all" =>
             \A p \in Instances :
                 transport'[p].calls # transport[p].calls =>
                    \/ /\ p = gen.self /\ gen.pc = "start"
                       /\ out.pages = <<>> /\ out.items = <<>>
                    \/ /\ out.pages # <<>>
                       /\ p = out.pages[Len(out.pages)]
                       /\ gen.cur = p /\ gen.index = 0
                       /\ out.items = ItemsOf(Len(out.pages) - 1)
       /\ (gen'.mode = "all" /\ gen'.cur # 0) => gen'.cur = Len(qs')]_vars

\* The consumer of all() is inside the second page, which has a next link:
\* more items to read on this page, and no instance after it.
C19_Witness ==
    /\ gen.mode = "all" /\ gen.cur # 0
    /\ Len(out.pages) >= 2
    /\ gen.index >= 1
    /\ gen.index < Len(The(qs[gen.cur].data))
    /\ ~IsNone(qs[gen.cur].next_url)
    /\ Len(qs) = gen.cur
    /\ Len(qs) < env.npages
====
